---- MODULE Spec2Model ----
(***************************************************************************)
(* Model of the streaming chat relay of ai-chat.                           *)
(*                                                                         *)
(*  Spec        : the server's ChatService.sendMessageStream and the       *)
(*                POST /stream route around it (chat.service.ts,           *)
(*                chat.routes.ts), several turns multiplexed over one      *)
(*                event loop, one step per await.                          *)
(*  SpecDecoder : the client's Ollama sendMessageStream (services/chat.ts) *)
(*                reading one upstream byte stream in arbitrary reads.     *)
(*  SpecTimeout : the same call inside sendMessageStreamWithTimeout.       *)
(*  SpecContext : one call of getContext (utils/context.ts) on a history   *)
(*                array held in a heap.                                    *)
(*  SpecApp     : the client App (App.tsx): handleModeChange, handleSend   *)
(*                behind ChatInput, and the callbacks of its streams.      *)
(*  SpecChatInput : ChatInput's handleSend behind its textarea.            *)
(*  SpecRetry   : the Ollama client inside sendMessageStreamWithRetry.     *)
(*  SpecAuth    : authMiddleware in front of GET /protected.               *)
(*  SpecSse     : the v0.5 client's sendMessageStream reading the SSE      *)
(*                response of POST /stream in arbitrary reads.             *)
(*  SpecHealth  : GET /health, several requests side by side.              *)
(***************************************************************************)
EXTENDS Integers, Sequences, FiniteSets, TLC

\* ------------------------------------------------------------------------
\* Bounds
\* ------------------------------------------------------------------------
MaxTurns == 2
MaxChunks == 2
\* the records of one upstream response body
MaxRecords == 2
\* the entries of a history handed to getContext
MaxHistory == 4
\* the largest contextLength of a mode
MaxWindow == 3
\* the messages sent in one run of the client App
MaxSends == 3
\* the requests sent to a route of the server
MaxRequests == 2
\* the tokens one read of the v0.5 client returns
MaxRead == 28
\* the requests sent to /health
MaxProbes == 3

Turns == 1..MaxTurns
Probes == 1..MaxProbes

\* ------------------------------------------------------------------------
\* Inputs
\* ------------------------------------------------------------------------
Users == {"u1", "u2"}
\* the users turn t may come from; the user of the first turn is named u1
UsersOf(t) == IF t = 1 THEN {"u1"} ELSE Users
Providers == {"p1", "p2"}
\* provider_configs rows: the providers getConfigWithKey finds a row for
ConfiguredProviders == {"p1"}
\* request texts (strings are sequences of characters)
Texts == {<<"h", "i">>, <<"y", "o">>}
\* the i-th content increment of an upstream reply: "a", "bc", "a", ...
Increment(i) == IF i % 2 = 1 THEN <<"a">> ELSE <<"b", "c">>
\* `sessionId` absent from the request body
NoSession == 0
\* an id no session has, now or later
UnknownSession == 9
SessionIds == {1, UnknownSession}

\* `take: 20` of the history query
HistoryTake == 20

VARIABLES
  sessions,          \* chat_sessions table, in creation order
  messages,          \* messages table, in creation order; the field
                     \* `turn` of a row records the call that inserted it
  pc,                \* per turn: the await the turn is suspended at
  input,             \* per turn: SendMessageInput
  session,           \* per turn: local `session` (its id)
  historyMessages,   \* per turn: local `historyMessages`
  fullResponse,      \* per turn: local `fullResponse`
  written,           \* per turn: the res.write calls, in order
  status,            \* per turn: what the response has become
  ended,             \* per turn: res.end()/res.json() was called
  connected,         \* per turn: the client's connection is still open
  received,          \* per turn: the events that reached the client
  upstream,          \* per turn: the increments the upstream produced
  upstreamEnd,       \* per turn: how the upstream call ended, "open" before
  commitAck          \* per turn: the store's answer to the assistant insert

relayVars == <<sessions, messages, pc, input, session, historyMessages,
               fullResponse, written, status, ended, connected, received,
               upstream, upstreamEnd, commitAck>>

\* the client's Ollama sendMessageStream, one call
VARIABLES
  stream,            \* the bytes of the response body, all of them
  pos,               \* how many of them reader.read() has handed out
  dpc,               \* where the call is: "fetch", "reading", "returned"
  pending,           \* TextDecoder: the bytes of an unfinished character
  callbacks,         \* the callbacks delivered, in order
  failed,            \* the transport failed (fetch or reader.read() threw)
  cut,               \* some read ended inside a line
  timer              \* the timer of sendMessageStreamWithTimeout: "none" in
                     \* a direct call, else "armed", "fired" or "cleared"

decVars == <<stream, pos, dpc, pending, callbacks, failed, cut, timer>>

\* one call of getContext, its arrays held in a heap
VARIABLES
  heap,              \* the arrays allocated so far; a reference is an index
  given,             \* the entries of the history array before the call
  callMode,          \* the mode handed to the call
  contextRef         \* the reference getContext returned, 0 before it returns

ctxVars == <<heap, given, callMode, contextRef>>

\* the client App
VARIABLES
  state,             \* useState as the last render saw it: messages,
                     \* loading, error, currentMode
  prev,              \* the state the queued updaters have produced
  now,               \* Date.now()
  streams            \* the sendMessageStream calls made, in order

appVars == <<state, prev, now, streams>>

\* the ChatInput component
VARIABLES
  inputText,         \* useState: input, the text of the textarea
  isLoading,         \* the isLoading prop
  onSendCalls        \* the arguments of the calls of onSend, in order

chatInputVars == <<inputText, isLoading, onSendCalls>>

\* sendMessageStreamWithRetry around the client's sendMessageStream
VARIABLES
  retryCount,        \* let retryCount
  rpc,               \* "idle", "awaiting" the call, or "returned"
  attempts           \* how many times sendMessageStream has been called

retryVars == <<retryCount, rpc, attempts>>

\* GET /protected behind authMiddleware, one request at a time
VARIABLES
  req,               \* the request: headers.authorization and user
  authRes,           \* the status codes of the responses sent to it
  nextCalls,         \* how many times the middleware called next()
  apc,               \* "idle", "middleware", "handler" or "done"
  authLog            \* the requests finished: header, responses, user

authVars == <<req, authRes, nextCalls, apc, authLog>>

\* the v0.5 client's sendMessageStream reading one response of POST /stream
VARIABLES
  response,          \* the server's response: ok, body and the SSE text
  offset,            \* how much of the text the reads have returned
  buffer,            \* the text read and not yet split into events
  spc,               \* "idle", "fetch", "read", "returned" or "failed"
  delivered,         \* the callbacks called so far, in order
  promise,           \* "pending", "resolved" or "rejected"
  carried            \* a read began with part of an event in buffer

sseVars == <<response, offset, buffer, spc, delivered, promise, carried>>

\* GET /health, the requests being served side by side
VARIABLES
  hpc,               \* per request: "idle", "query", "after" or "done"
  dbError,           \* per request: the error of the query, or "null"
  sends,             \* per request: the responses the handler asked for
  healthRes,         \* per request: the responses written to the socket
  thrown             \* per request: what the handler's promise rejected with

healthVars == <<hpc, dbError, sends, healthRes, thrown>>

\* what the steps of one component leave alone
restVars == <<chatInputVars, retryVars, authVars, sseVars, healthVars>>
exceptRelay == <<decVars, ctxVars, appVars, restVars>>
exceptDecoder == <<relayVars, ctxVars, appVars, restVars>>
exceptContext == <<relayVars, decVars, appVars, restVars>>
exceptApp == <<relayVars, decVars, ctxVars, restVars>>
exceptChatInput == <<relayVars, decVars, ctxVars, appVars, retryVars,
                     authVars, sseVars, healthVars>>
exceptRetry == <<relayVars, ctxVars, appVars, chatInputVars, authVars,
                 sseVars, healthVars>>
exceptAuth == <<relayVars, decVars, ctxVars, appVars, chatInputVars,
                retryVars, sseVars, healthVars>>
exceptSse == <<relayVars, decVars, ctxVars, appVars, chatInputVars,
               retryVars, authVars, healthVars>>
exceptHealth == <<relayVars, decVars, ctxVars, appVars, chatInputVars,
                  retryVars, authVars, sseVars>>

vars == <<relayVars, decVars, ctxVars, appVars, restVars>>

NoInput == [userId |-> "", sessionId |-> NoSession, message |-> <<>>,
            provider |-> ""]

\* ------------------------------------------------------------------------
\* Helpers
\* ------------------------------------------------------------------------
Min(a, b) == IF a < b THEN a ELSE b

RECURSIVE Flatten(_)
\* the concatenation of a sequence of strings
Flatten(ss) == IF ss = <<>> THEN <<>> ELSE Head(ss) \o Flatten(Tail(ss))

RECURSIVE SelectSeqBy(_, _)
\* the rows of `rows` whose sessionId is sid, in table order
SelectSeqBy(rows, sid) ==
  IF rows = <<>> THEN <<>>
  ELSE IF Head(rows).sessionId = sid
       THEN <<Head(rows)>> \o SelectSeqBy(Tail(rows), sid)
       ELSE SelectSeqBy(Tail(rows), sid)

\* prisma.message.findMany({where:{sessionId}, orderBy:{createdAt:'asc'}, take})
FindManyMessages(sid, take) ==
  LET rows == SelectSeqBy(messages, sid)
  IN  SubSeq(rows, 1, Min(Len(rows), take))

\* prisma.chatSession.findUnique({where:{id}}): the id, or NoSession for null
FindUniqueSession(sid) ==
  IF \E i \in 1..Len(sessions) : sessions[i].id = sid THEN sid ELSE NoSession

SessionEvent(sid) == [type |-> "session", data |-> <<sid>>]
MessageEvent(chunk) == [type |-> "message", data |-> chunk]
DoneEvent == [type |-> "done", data |-> <<>>]
ErrorEvent == [type |-> "error", data |-> <<>>]

\* res.write(ev): recorded, and delivered while the connection is open
ResWrite(t, evs) ==
  /\ written' = [written EXCEPT ![t] = @ \o evs]
  /\ received' = [received EXCEPT ![t] =
                    IF connected[t] THEN @ \o evs ELSE @]

\* res.status(code).json(...): a one-shot JSON answer
ResJson(t, code) ==
  /\ status' = [status EXCEPT ![t] = code]
  /\ ended' = [ended EXCEPT ![t] = TRUE]

\* res.headersSent
HeadersSent(t) == status[t] # "none"

\* the catch of router.post('/stream'): a 500 unless the headers are gone
RouterCatch(t, next) ==
  /\ pc' = [pc EXCEPT ![t] = next]
  /\ IF ~HeadersSent(t)
     THEN ResJson(t, "500")
     ELSE UNCHANGED <<status, ended>>

\* ------------------------------------------------------------------------
\* Init
\* ------------------------------------------------------------------------
InitRelay ==
  /\ sessions = <<>>
  /\ messages = <<>>
  /\ pc = [t \in Turns |-> "idle"]
  /\ input = [t \in Turns |-> NoInput]
  /\ session = [t \in Turns |-> NoSession]
  /\ historyMessages = [t \in Turns |-> <<>>]
  /\ fullResponse = [t \in Turns |-> <<>>]
  /\ written = [t \in Turns |-> <<>>]
  /\ status = [t \in Turns |-> "none"]
  /\ ended = [t \in Turns |-> FALSE]
  /\ connected = [t \in Turns |-> TRUE]
  /\ received = [t \in Turns |-> <<>>]
  /\ upstream = [t \in Turns |-> <<>>]
  /\ upstreamEnd = [t \in Turns |-> "open"]
  /\ commitAck = [t \in Turns |-> "none"]

\* no call of the client's sendMessageStream is under way
DecoderIdle ==
  /\ stream = <<>>
  /\ pos = 0
  /\ dpc = "idle"
  /\ pending = <<>>
  /\ callbacks = <<>>
  /\ failed = FALSE
  /\ cut = FALSE
  /\ timer = "none"

NoMode == [id |-> "", systemPrompt |-> <<>>, contextLength |-> 0]

\* no getContext call is modelled
ContextIdle ==
  /\ heap = <<>>
  /\ given = <<>>
  /\ callMode = NoMode
  /\ contextRef = 0

NoError == "null"

\* no App is modelled
AppIdle ==
  /\ state = [messages |-> <<>>, loading |-> FALSE, error |-> NoError,
              currentMode |-> NoMode]
  /\ prev = state
  /\ now = 0
  /\ streams = <<>>

\* no ChatInput is modelled
ChatInputIdle ==
  /\ inputText = <<>>
  /\ isLoading = FALSE
  /\ onSendCalls = <<>>

\* no sendMessageStreamWithRetry is modelled
RetryIdle ==
  /\ retryCount = 0
  /\ rpc = "idle"
  /\ attempts = 0

NoUser == [userId |-> ""]
NoRequest == [authorization |-> <<>>, user |-> NoUser]

\* no request to /protected is modelled
AuthIdle ==
  /\ req = NoRequest
  /\ authRes = <<>>
  /\ nextCalls = 0
  /\ apc = "idle"
  /\ authLog = <<>>

NoResponse == [ok |-> FALSE, body |-> FALSE, text |-> <<>>]

\* no call of the v0.5 client is modelled
SseIdle ==
  /\ response = NoResponse
  /\ offset = 0
  /\ buffer = <<>>
  /\ spc = "idle"
  /\ delivered = <<>>
  /\ promise = "pending"
  /\ carried = FALSE

\* no request to /health is modelled
HealthIdle ==
  /\ hpc = [r \in Probes |-> "idle"]
  /\ dbError = [r \in Probes |-> "null"]
  /\ sends = [r \in Probes |-> <<>>]
  /\ healthRes = [r \in Probes |-> <<>>]
  /\ thrown = [r \in Probes |-> "null"]

\* the components other than c, of those below the App, are idle
RestIdle(c) ==
  /\ IF c = "ChatInput" THEN TRUE ELSE ChatInputIdle
  /\ IF c = "Retry" THEN TRUE ELSE RetryIdle
  /\ IF c = "Auth" THEN TRUE ELSE AuthIdle
  /\ IF c = "Sse" THEN TRUE ELSE SseIdle
  /\ IF c = "Health" THEN TRUE ELSE HealthIdle

Init == InitRelay /\ DecoderIdle /\ ContextIdle /\ AppIdle /\ RestIdle("")

\* ------------------------------------------------------------------------
\* POST /stream: the request reaches sendMessageStream, which looks the
\* provider configuration up (a table no turn writes, so the lookup is taken
\* in the same step): res.status(400) when there is none
\* ------------------------------------------------------------------------
Request(t, u, sid, msg, prov) ==
  /\ pc[t] = "idle"
  /\ \A s \in Turns : s < t => pc[s] # "idle"
  /\ sid \in {NoSession, UnknownSession} \/ FindUniqueSession(sid) # NoSession
  /\ input' = [input EXCEPT ![t] =
       [userId |-> u, sessionId |-> sid, message |-> msg, provider |-> prov]]
  /\ IF prov \notin ConfiguredProviders
     THEN /\ ResJson(t, "400")
          /\ pc' = [pc EXCEPT ![t] = "replied"]
     ELSE /\ pc' = [pc EXCEPT ![t] =
                 IF sid # NoSession THEN "findSession" ELSE "createSession"]
          /\ UNCHANGED <<status, ended>>
  /\ UNCHANGED <<sessions, messages, session, historyMessages, fullResponse,
                 written, connected, received, upstream, upstreamEnd, commitAck,
                 exceptRelay>>

\* session = await prisma.chatSession.findUnique({ where: { id: sessionId } })
FindSession(t, ok) ==
  /\ pc[t] = "findSession"
  /\ IF ok
     THEN /\ session' = [session EXCEPT ![t] =
                           FindUniqueSession(input[t].sessionId)]
          /\ pc' = [pc EXCEPT ![t] =
                 IF FindUniqueSession(input[t].sessionId) = NoSession
                 THEN "createSession" ELSE "saveUser"]
          /\ UNCHANGED <<status, ended>>
     ELSE /\ RouterCatch(t, "replied")
          /\ UNCHANGED session
  /\ UNCHANGED <<sessions, messages, input, historyMessages, fullResponse,
                 written, connected, received, upstream, upstreamEnd, commitAck,
                 exceptRelay>>

\* if (!session) session = await prisma.chatSession.create({...})
CreateSession(t, ok) ==
  /\ pc[t] = "createSession"
  /\ IF ok
     THEN /\ sessions' = Append(sessions,
                [id |-> Len(sessions) + 1, userId |-> input[t].userId])
          /\ session' = [session EXCEPT ![t] = Len(sessions) + 1]
          /\ pc' = [pc EXCEPT ![t] = "saveUser"]
          /\ UNCHANGED <<status, ended>>
     ELSE /\ RouterCatch(t, "replied")
          /\ UNCHANGED <<sessions, session>>
  /\ UNCHANGED <<messages, input, historyMessages, fullResponse, written,
                 connected, received, upstream, upstreamEnd, commitAck,
                 exceptRelay>>

\* await prisma.message.create({ data: { sessionId, role: 'user', content } })
\* mutant: the result of the insert is not looked at (an insert that reports
\* its failure in a returned error object instead of throwing)
SaveUserMessage_ignoreError(t, ok) ==
  /\ pc[t] = "saveUser"
  /\ messages' = IF ok
                 THEN Append(messages,
                        [sessionId |-> session[t], role |-> "user",
                         content |-> input[t].message, turn |-> t])
                 ELSE messages
  /\ pc' = [pc EXCEPT ![t] = "findHistory"]
  /\ UNCHANGED <<sessions, input, session, historyMessages, fullResponse,
                 written, status, ended, connected, received, upstream, upstreamEnd, commitAck,
                 exceptRelay>>

SaveUserMessage(t, ok) ==
  /\ pc[t] = "saveUser"
  /\ IF ok
     THEN /\ messages' = Append(messages,
                [sessionId |-> session[t], role |-> "user",
                 content |-> input[t].message, turn |-> t])
          /\ pc' = [pc EXCEPT ![t] = "findHistory"]
          /\ UNCHANGED <<status, ended>>
     ELSE /\ RouterCatch(t, "replied")
          /\ UNCHANGED messages
  /\ UNCHANGED <<sessions, input, session, historyMessages, fullResponse,
                 written, connected, received, upstream, upstreamEnd, commitAck,
                 exceptRelay>>

\* historyMessages = await prisma.message.findMany(...); then, with no await
\* in between: the SSE headers, the `session` event, fullResponse = '',
\* and the call of adapter.chatStream
OpenStream(t, ok) ==
  /\ pc[t] = "findHistory"
  /\ IF ok
     THEN /\ historyMessages' = [historyMessages EXCEPT ![t] =
                                   FindManyMessages(session[t], HistoryTake)]
          /\ status' = [status EXCEPT ![t] = "sse"]
          /\ ResWrite(t, <<SessionEvent(session[t])>>)
          /\ fullResponse' = [fullResponse EXCEPT ![t] = <<>>]
          /\ pc' = [pc EXCEPT ![t] = "streaming"]
          /\ UNCHANGED ended
     ELSE /\ RouterCatch(t, "replied")
          /\ UNCHANGED <<historyMessages, written, received, fullResponse>>
  /\ UNCHANGED <<sessions, messages, input, session, connected, upstream, upstreamEnd, commitAck,
                 exceptRelay>>

\* ------------------------------------------------------------------------
\* The callbacks handed to adapter.chatStream
\* ------------------------------------------------------------------------
\* mutant: the increment is forwarded but not added to the response buffer
onChunk_notBuffered(t, chunk) ==
  /\ UNCHANGED fullResponse
  /\ ResWrite(t, <<MessageEvent(chunk)>>)

\* mutant: increments stop being buffered once the client is gone
onChunk_dropAfterDisconnect(t, chunk) ==
  /\ fullResponse' = [fullResponse EXCEPT ![t] =
                         IF connected[t] THEN @ \o chunk ELSE @]
  /\ ResWrite(t, <<MessageEvent(chunk)>>)

\* mutant: an increment is buffered without being forwarded
onChunk_bufferOnly(t, chunk) ==
  /\ fullResponse' = [fullResponse EXCEPT ![t] = @ \o chunk]
  /\ ResWrite(t, <<>>)

\* onChunk: (chunk) => { fullResponse += chunk; res.write(message) }
onChunk(t, chunk) ==
  /\ fullResponse' = [fullResponse EXCEPT ![t] = @ \o chunk]
  /\ ResWrite(t, <<MessageEvent(chunk)>>)

\* mutant: `done` is written whether or not the insert succeeded
onCompleteCommit_unchecked(t, ok) ==
  /\ messages' = IF ok
                 THEN Append(messages,
                        [sessionId |-> session[t], role |-> "assistant",
                         content |-> fullResponse[t], turn |-> t])
                 ELSE messages
  /\ ResWrite(t, <<DoneEvent>>)
  /\ ended' = [ended EXCEPT ![t] = TRUE]
  /\ pc' = [pc EXCEPT ![t] = "ended"]

\* onComplete: await prisma.message.create(assistant); res.write(done); res.end()
\* (ok = FALSE: the insert rejects, and with it the promise of onComplete)
onCompleteCommit(t, ok) ==
  IF ok
  THEN /\ messages' = Append(messages,
              [sessionId |-> session[t], role |-> "assistant",
               content |-> fullResponse[t], turn |-> t])
       /\ ResWrite(t, <<DoneEvent>>)
       /\ ended' = [ended EXCEPT ![t] = TRUE]
       /\ pc' = [pc EXCEPT ![t] = "ended"]
  ELSE /\ pc' = [pc EXCEPT ![t] = "completeRejected"]
       /\ UNCHANGED <<messages, written, received, ended>>

\* mutant: the partial reply is stored before the error is reported
onError_commitPartial(t) ==
  /\ messages' = Append(messages,
        [sessionId |-> session[t], role |-> "assistant",
         content |-> fullResponse[t], turn |-> t])
  /\ ResWrite(t, <<ErrorEvent>>)
  /\ ended' = [ended EXCEPT ![t] = TRUE]
  /\ pc' = [pc EXCEPT ![t] = "ended"]

\* onError: (error) => { res.write(error); res.end() }
onError(t) ==
  /\ ResWrite(t, <<ErrorEvent>>)
  /\ ended' = [ended EXCEPT ![t] = TRUE]
  /\ pc' = [pc EXCEPT ![t] = "ended"]
  /\ UNCHANGED messages

\* ------------------------------------------------------------------------
\* adapter.chatStream: the upstream side of a turn
\* ------------------------------------------------------------------------
\* the upstream produces its next increment
AdapterChunk(t, chunk) ==
  /\ pc[t] = "streaming"
  /\ Len(upstream[t]) < MaxChunks
  /\ chunk = Increment(Len(upstream[t]) + 1)
  /\ upstream' = [upstream EXCEPT ![t] = Append(@, chunk)]
  /\ onChunk(t, chunk)
  /\ UNCHANGED <<sessions, messages, pc, input, session, historyMessages,
                 status, ended, connected, upstreamEnd, commitAck,
                 exceptRelay>>

\* the upstream stream ends normally: onComplete is called and suspends at
\* its insert
AdapterComplete(t) ==
  /\ pc[t] = "streaming"
  /\ upstreamEnd' = [upstreamEnd EXCEPT ![t] = "complete"]
  /\ pc' = [pc EXCEPT ![t] = "committing"]
  /\ UNCHANGED <<sessions, messages, input, session, historyMessages,
                 fullResponse, written, status, ended, connected, received,
                 upstream, commitAck,
                 exceptRelay>>

\* the insert of onComplete is answered
Commit(t, ok) ==
  /\ pc[t] = "committing"
  /\ commitAck' = [commitAck EXCEPT ![t] = IF ok THEN "ok" ELSE "failed"]
  /\ onCompleteCommit(t, ok)
  /\ UNCHANGED <<sessions, input, session, historyMessages, fullResponse,
                 status, connected, upstream, upstreamEnd,
                 exceptRelay>>

\* the upstream fails, before or after content, and the adapter reports it
\* through onError; an adapter that awaits onComplete inside its own
\* try/catch reports a rejected onComplete the same way
AdapterError(t) ==
  /\ pc[t] \in {"streaming", "completeRejected"}
  /\ upstreamEnd' = [upstreamEnd EXCEPT ![t] =
                        IF pc[t] = "streaming" THEN "error" ELSE @]
  /\ onError(t)
  /\ UNCHANGED <<sessions, input, session, historyMessages, fullResponse,
                 status, connected, upstream, commitAck,
                 exceptRelay>>

\* the upstream refuses the request (UpstreamRejected) and chatStream
\* rejects: the exception leaves sendMessageStream and reaches the route
AdapterReject(t) ==
  /\ pc[t] = "streaming"
  /\ upstream[t] = <<>>
  /\ upstreamEnd' = [upstreamEnd EXCEPT ![t] = "rejected"]
  /\ RouterCatch(t, "streamRejected")
  /\ UNCHANGED <<sessions, messages, input, session, historyMessages,
                 fullResponse, written, connected, received, upstream, commitAck,
                 exceptRelay>>

\* the client closes its connection; no handler of the server listens for it
ClientDisconnect(t) ==
  /\ pc[t] = "streaming"
  /\ ~ended[t]
  /\ connected[t]
  /\ connected' = [connected EXCEPT ![t] = FALSE]
  /\ UNCHANGED <<sessions, messages, pc, input, session, historyMessages,
                 fullResponse, written, status, ended, received, upstream, upstreamEnd, commitAck,
                 exceptRelay>>

Next ==
  \/ \E t \in Turns : \E u \in UsersOf(t), sid \in {NoSession} \cup SessionIds,
        msg \in Texts, prov \in Providers : Request(t, u, sid, msg, prov)
  \/ \E t \in Turns, ok \in BOOLEAN : FindSession(t, ok)
  \/ \E t \in Turns, ok \in BOOLEAN : CreateSession(t, ok)
  \/ \E t \in Turns, ok \in BOOLEAN : SaveUserMessage(t, ok)
  \/ \E t \in Turns, ok \in BOOLEAN : OpenStream(t, ok)
  \/ \E t \in Turns, chunk \in {<<"a">>, <<"b", "c">>} : AdapterChunk(t, chunk)
  \/ \E t \in Turns : AdapterComplete(t)
  \/ \E t \in Turns, ok \in BOOLEAN : Commit(t, ok)
  \/ \E t \in Turns : AdapterError(t)
  \/ \E t \in Turns : AdapterReject(t)
  \/ \E t \in Turns : ClientDisconnect(t)

Spec == Init /\ [][Next]_vars

\* ------------------------------------------------------------------------
\* The client's Ollama sendMessageStream (services/chat.ts)
\* ------------------------------------------------------------------------
\* The wire: one record per line.  A byte is a one-character string, except
\* the two bytes C3 A9 of the character "é".  A line stands for a JSON text:
\*   { c1 .. cn }     {"message":{"content":"c1..cn"},"done":false}
\*   { c1 .. cn ! }   {"message":{"content":"c1..cn"},"done":true}
\* and any other line is no JSON text.
Newline == "\n"
Lines == { <<"{", "a", "}">>,
           <<"{", "b", "!", "}">>,
           <<"{", "!", "}">>,
           <<"{", "C3", "A9", "}">>,
           <<"{", "}">>,
           <<"x">> }

\* the response bodies: up to MaxRecords lines, each ended by a newline
Streams ==
  { Flatten([i \in 1..Len(ls) |-> ls[i] \o <<Newline>>]) :
      ls \in UNION { [1..n -> Lines] : n \in 0..MaxRecords } }

RECURSIVE DecodeFrom(_, _, _)
\* decoder.decode(value, { stream: true }): the text of `bytes` after the
\* held bytes `held`; an unfinished character is held for the next call, a
\* byte that cannot continue or start a character becomes U+FFFD ("?")
DecodeFrom(held, bytes, text) ==
  IF bytes = <<>> THEN [text |-> text, held |-> held]
  ELSE LET b == Head(bytes) IN
       IF held = <<"C3">>
       THEN IF b = "A9"
            THEN DecodeFrom(<<>>, Tail(bytes), Append(text, "é"))
            ELSE DecodeFrom(<<>>, bytes, Append(text, "?"))
       ELSE IF b = "C3" THEN DecodeFrom(<<"C3">>, Tail(bytes), text)
            ELSE IF b = "A9" THEN DecodeFrom(<<>>, Tail(bytes), Append(text, "?"))
            ELSE DecodeFrom(<<>>, Tail(bytes), Append(text, b))

RECURSIVE SplitFrom(_, _)
\* chunk.split("\n"): `cur` is the piece being collected
SplitFrom(text, cur) ==
  IF text = <<>> THEN <<cur>>
  ELSE IF Head(text) = Newline
       THEN <<cur>> \o SplitFrom(Tail(text), <<>>)
       ELSE SplitFrom(Tail(text), Append(cur, Head(text)))

\* chunk.split("\n").filter((line) => line.trim())
SplitLines(text) == SelectSeq(SplitFrom(text, <<>>), LAMBDA l : l # <<>>)

ContentChars == {"a", "b", "é", "?"}

\* JSON.parse(line): ok = FALSE when it throws
JsonParse(line) ==
  LET n == Len(line)
      wellFormed ==
        /\ n >= 2
        /\ line[1] = "{"
        /\ line[n] = "}"
        /\ \A i \in 2..(n - 1) :
             \/ line[i] \in ContentChars
             \/ i = n - 1 /\ line[i] = "!"
      isDone == wellFormed /\ n >= 3 /\ line[n - 1] = "!"
  IN  [ok |-> wellFormed,
       done |-> isDone,
       content |-> IF ~wellFormed THEN <<>>
                   ELSE SubSeq(line, 2, IF isDone THEN n - 2 ELSE n - 1)]

ChunkCallback(content) == [cb |-> "onChunk", data |-> content]
CompleteCallback == [cb |-> "onComplete", data |-> <<>>]
ErrorCallback == [cb |-> "onError", data |-> <<>>]

RECURSIVE ProcessLines_noReturn(_, _)
\* mutant: the loop goes on after the onComplete of a done record
ProcessLines_noReturn(lines, cbs) ==
  IF lines = <<>> THEN [cbs |-> cbs, returned |-> FALSE]
  ELSE LET data == JsonParse(Head(lines))
           c1 == IF data.ok /\ data.content # <<>>
                 THEN Append(cbs, ChunkCallback(data.content)) ELSE cbs
           c2 == IF data.ok /\ data.done
                 THEN Append(c1, CompleteCallback) ELSE c1
       IN  ProcessLines_noReturn(Tail(lines), c2)

RECURSIVE ProcessLines_failFast(_, _)
\* mutant: a line that does not parse ends the call through onError
ProcessLines_failFast(lines, cbs) ==
  IF lines = <<>> THEN [cbs |-> cbs, returned |-> FALSE]
  ELSE LET data == JsonParse(Head(lines))
           c1 == IF data.ok /\ data.content # <<>>
                 THEN Append(cbs, ChunkCallback(data.content)) ELSE cbs
       IN  IF ~data.ok
           THEN [cbs |-> Append(cbs, ErrorCallback), returned |-> TRUE]
           ELSE IF data.done
                THEN [cbs |-> Append(c1, CompleteCallback), returned |-> TRUE]
                ELSE ProcessLines_failFast(Tail(lines), c1)

RECURSIVE ProcessLines(_, _)
\* for (const line of lines) { try { parse; onChunk; if (done) { onComplete;
\* return } } catch { console.error } }
ProcessLines(lines, cbs) ==
  IF lines = <<>> THEN [cbs |-> cbs, returned |-> FALSE]
  ELSE LET data == JsonParse(Head(lines))
           c1 == IF data.ok /\ data.content # <<>>
                 THEN Append(cbs, ChunkCallback(data.content)) ELSE cbs
       IN  IF data.ok /\ data.done
           THEN [cbs |-> Append(c1, CompleteCallback), returned |-> TRUE]
           ELSE ProcessLines(Tail(lines), c1)

\* a call starts on some response body
\* one call of sendMessageStream on some response body
DecoderCall ==
  /\ stream \in Streams
  /\ pos = 0
  /\ dpc = "fetch"
  /\ pending = <<>>
  /\ callbacks = <<>>
  /\ failed = FALSE
  /\ cut = FALSE

DecoderStart ==
  /\ InitRelay
  /\ ContextIdle
  /\ AppIdle
  /\ RestIdle("")
  /\ DecoderCall

\* sendMessageStream called directly
InitDecoder == DecoderStart /\ timer = "none"

\* finally { clearTimeout(timeoutId) }: runs when the awaited call returns
ClearTimeout == timer' = IF timer = "armed" THEN "cleared" ELSE timer

\* await fetch(...): the response is ok and has a body
FetchOk ==
  /\ dpc = "fetch"
  /\ dpc' = "reading"
  /\ UNCHANGED <<stream, pos, pending, callbacks, failed, cut, timer,
                 exceptDecoder>>

\* fetch rejects, or !response.ok, or !response.body: thrown inside the try,
\* so the catch calls onError
FetchFail ==
  /\ dpc = "fetch"
  /\ callbacks' = Append(callbacks, ErrorCallback)
  /\ failed' = TRUE
  /\ dpc' = "returned"
  /\ ClearTimeout
  /\ UNCHANGED <<stream, pos, pending, cut, exceptDecoder>>

\* reader.read() hands out the next k bytes; they are decoded, split and
\* parsed line by line
Read(k) ==
  /\ dpc = "reading"
  /\ k >= 1
  /\ pos + k <= Len(stream)
  /\ LET dec == DecodeFrom(pending, SubSeq(stream, pos + 1, pos + k), <<>>)
         out == ProcessLines(SplitLines(dec.text), callbacks)
     IN  /\ pending' = dec.held
         /\ callbacks' = out.cbs
         /\ dpc' = IF out.returned THEN "returned" ELSE "reading"
         /\ IF out.returned THEN ClearTimeout ELSE UNCHANGED timer
  /\ pos' = pos + k
  /\ cut' = (cut \/ stream[pos + k] # Newline)
  /\ UNCHANGED <<stream, failed, exceptDecoder>>

\* reader.read() reports done: onComplete(); break
ReadDone ==
  /\ dpc = "reading"
  /\ pos = Len(stream)
  /\ callbacks' = Append(callbacks, CompleteCallback)
  /\ dpc' = "returned"
  /\ ClearTimeout
  /\ UNCHANGED <<stream, pos, pending, failed, cut, exceptDecoder>>

\* reader.read() rejects (the connection breaks): the catch calls onError
ReadFail ==
  /\ dpc = "reading"
  /\ callbacks' = Append(callbacks, ErrorCallback)
  /\ failed' = TRUE
  /\ dpc' = "returned"
  /\ ClearTimeout
  /\ UNCHANGED <<stream, pos, pending, cut, exceptDecoder>>

NextDecoder ==
  \/ FetchOk
  \/ FetchFail
  \/ \E k \in 1..Len(stream) : Read(k)
  \/ ReadDone
  \/ ReadFail

SpecDecoder == InitDecoder /\ [][NextDecoder]_vars

\* ------------------------------------------------------------------------
\* sendMessageStreamWithTimeout around the same call
\* ------------------------------------------------------------------------
TimeoutCallback == [cb |-> "onError", data |-> <<"Request timeout">>]

\* setTimeout(..., timeout), then await sendMessageStream(...)
InitTimeout == DecoderStart /\ timer = "armed"

\* the timer expires before clearTimeout: onError(new Error('Request timeout'))
TimeoutFires ==
  /\ timer = "armed"
  /\ timer' = "fired"
  /\ callbacks' = Append(callbacks, TimeoutCallback)
  /\ UNCHANGED <<stream, pos, dpc, pending, failed, cut, exceptDecoder>>

NextTimeout ==
  \/ FetchOk
  \/ FetchFail
  \/ \E k \in 1..Len(stream) : Read(k)
  \/ ReadDone
  \/ ReadFail
  \/ TimeoutFires

SpecTimeout == InitTimeout /\ [][NextTimeout]_vars

\* ------------------------------------------------------------------------
\* sendMessageStreamWithRetry around the same call
\* ------------------------------------------------------------------------
\* maxRetries: number = 3
maxRetries == 3

\* the promise of sendMessageStream rejected: an exception left its try/catch
Rejected == dpc = "rejected"

\* let retryCount = 0; the loop is entered and sendMessageStream is called
InitRetry ==
  /\ InitRelay
  /\ ContextIdle
  /\ AppIdle
  /\ RestIdle("Retry")
  /\ DecoderCall
  /\ timer = "none"
  /\ retryCount = 0
  /\ rpc = "awaiting"
  /\ attempts = 1

\* the awaited call settles: `return` when it resolved; in the catch,
\* retryCount++, then onError and return at maxRetries, else the wait and the
\* next call
RetrySettled ==
  /\ rpc = "awaiting"
  /\ dpc \in {"returned", "rejected"}
  /\ IF Rejected
     THEN /\ retryCount' = retryCount + 1
          /\ IF retryCount + 1 >= maxRetries
             THEN /\ callbacks' = Append(callbacks, ErrorCallback)
                  /\ rpc' = "returned"
                  /\ UNCHANGED <<dpc, pos, pending, attempts>>
             ELSE /\ dpc' = "fetch"
                  /\ pos' = 0
                  /\ pending' = <<>>
                  /\ attempts' = attempts + 1
                  /\ UNCHANGED <<callbacks, rpc>>
     ELSE /\ rpc' = "returned"
          /\ UNCHANGED <<retryCount, attempts, callbacks, dpc, pos, pending>>
  /\ UNCHANGED <<stream, failed, cut, timer, exceptRetry>>

NextRetry ==
  \/ FetchOk
  \/ FetchFail
  \/ \E k \in 1..Len(stream) : Read(k)
  \/ ReadDone
  \/ ReadFail
  \/ RetrySettled

SpecRetry == InitRetry /\ [][NextRetry]_vars

\* ------------------------------------------------------------------------
\* getContext (utils/context.ts)
\* ------------------------------------------------------------------------
Max(a, b) == IF a > b THEN a ELSE b

\* a mode of the Mode type; the id names the mode
Mode(n) == [id |-> <<"mode", ToString(n)>>,
            systemPrompt |-> <<"P", ToString(n)>>,
            contextLength |-> n]
Modes == {Mode(n) : n \in 0..MaxWindow}

\* the history entry at position i: a user or an assistant message
EntriesAt(i) ==
  {[id |-> ToString(i), role |-> "user", content |-> <<"h", "i">>],
   [id |-> ToString(i), role |-> "assistant", content |-> <<"a">>]}
Histories ==
  UNION {{h \in [1..n -> UNION {EntriesAt(i) : i \in 1..n}] :
            \A i \in 1..n : h[i] \in EntriesAt(i)} : n \in 0..MaxHistory}

\* mutant: the window is taken from the front of the array
ArraySlice_fromFront(arr, start) ==
  SubSeq(arr, 1, Min(Len(arr), IF start < 0 THEN 0 - start ELSE Len(arr)))

\* Array.prototype.slice(start): a new array holding the entries from start
\* on; a negative start counts from the end, and -0 is 0
ArraySlice(arr, start) ==
  LET n == Len(arr)
      k == IF start < 0 THEN Max(n + start, 0) ELSE Min(start, n)
  IN  SubSeq(arr, k + 1, n)

SystemMessage(mode) ==
  [id |-> "system", role |-> "system", content |-> mode.systemPrompt]

\* mutant: the window is cut out of the history array itself, which is
\* returned
getContext_inPlace(h, msgs, mode) ==
  LET recentMessages == ArraySlice(h[msgs], 0 - mode.contextLength)
  IN  [heap |-> [h EXCEPT ![msgs] =
                    <<SystemMessage(mode)>> \o recentMessages],
       ref |-> msgs]

\* getContext(messages, mode) on heap h, messages being the reference msgs: slice allocates recentMessages, the
\* array literal allocates the result
getContext(h, msgs, mode) ==
  LET recentMessages == ArraySlice(h[msgs], 0 - mode.contextLength)
      h1 == Append(h, recentMessages)
      h2 == Append(h1, <<SystemMessage(mode)>> \o h1[Len(h1)])
  IN  [heap |-> h2, ref |-> Len(h2)]

\* the history array is reference 1
InitContext ==
  /\ InitRelay
  /\ DecoderIdle
  /\ AppIdle
  /\ RestIdle("")
  /\ given \in Histories
  /\ heap = <<given>>
  /\ callMode \in Modes
  /\ contextRef = 0

CallGetContext ==
  /\ contextRef = 0
  /\ LET r == getContext(heap, 1, callMode)
     IN  /\ heap' = r.heap
         /\ contextRef' = r.ref
  /\ UNCHANGED <<given, callMode, exceptContext>>

NextContext == CallGetContext

SpecContext == InitContext /\ [][NextContext]_vars

\* ------------------------------------------------------------------------
\* The client App (App.tsx) with ChatInput in front of handleSend
\* ------------------------------------------------------------------------
\* config/modes: the modes offered, the first one the default
MODES == [i \in 1..MaxWindow |-> Mode(i)]

\* the trimmed texts a user sends
AppInputs == {<<"h", "i">>}

\* getContext(newMessages, mode), the entries of the array it returns
ContextOf(newMessages, mode) ==
  LET r == getContext(<<newMessages>>, 1, mode)
  IN  r.heap[r.ref]

InitApp ==
  /\ InitRelay
  /\ DecoderIdle
  /\ ContextIdle
  /\ RestIdle("")
  /\ state = [messages |-> <<>>, loading |-> FALSE, error |-> NoError,
              currentMode |-> MODES[1]]
  /\ prev = state
  /\ now = 1
  /\ streams = <<>>

\* an update made inside an event handler is rendered before the handler's
\* event ends
FlushSync == state' = prev'

\* an update made in a callback of the stream is rendered in a later task
Render ==
  /\ state # prev
  /\ state' = prev
  /\ UNCHANGED <<prev, now, streams, exceptApp>>

\* mutant: a change of mode starts a new conversation
handleModeChange_newChat(mode) ==
  /\ prev' = IF mode.id = state.currentMode.id THEN prev
             ELSE [prev EXCEPT !.currentMode = mode, !.messages = <<>>]
  /\ IF mode.id = state.currentMode.id THEN UNCHANGED state ELSE FlushSync
  /\ UNCHANGED <<now, streams, exceptApp>>

\* handleModeChange(mode)
handleModeChange(mode) ==
  /\ prev' = IF mode.id = state.currentMode.id THEN prev
             ELSE [prev EXCEPT !.currentMode = mode]
  /\ IF mode.id = state.currentMode.id THEN UNCHANGED state ELSE FlushSync
  /\ UNCHANGED <<now, streams, exceptApp>>

\* ChatInput.handleSend -> App.handleSend(content): the user message and an
\* empty assistant message are appended to the messages of the render the
\* handler belongs to, the context is taken from these messages up to the
\* user message, and the stream is started
handleSend(content) ==
  /\ ~state.loading
  /\ Len(streams) < MaxSends
  /\ LET userMessage == [id |-> ToString(now), role |-> "user",
                         content |-> content]
         assistantMessageId == ToString(now + 1)
         assistantMessage == [id |-> assistantMessageId,
                              role |-> "assistant", content |-> <<>>]
         newMessages == Append(state.messages, userMessage)
         context == ContextOf(newMessages, state.currentMode)
     IN  /\ prev' = [prev EXCEPT
                       !.messages = Append(newMessages, assistantMessage),
                       !.loading = TRUE]
         /\ streams' = Append(streams,
                          [id |-> assistantMessageId, status |-> "open",
                           chunks |-> 0, context |-> context,
                           history |-> newMessages,
                           mode |-> state.currentMode])
  /\ FlushSync
  /\ now' = now + 2
  /\ UNCHANGED exceptApp

\* onChunk of call i: the content is appended to the message with the
\* placeholder's id
App_onChunk(i, newContent) ==
  /\ streams[i].status = "open"
  /\ streams[i].chunks < MaxChunks
  /\ newContent = Increment(streams[i].chunks + 1)
  /\ prev' = [prev EXCEPT
                !.messages = [k \in 1..Len(@) |->
                                IF @[k].id = streams[i].id
                                THEN [@[k] EXCEPT !.content = @ \o newContent]
                                ELSE @[k]],
                !.loading = FALSE]
  /\ streams' = [streams EXCEPT ![i].chunks = @ + 1]
  /\ UNCHANGED <<state, now, exceptApp>>

\* onComplete of call i
App_onComplete(i) ==
  /\ streams[i].status = "open"
  /\ prev' = [prev EXCEPT !.loading = FALSE]
  /\ streams' = [streams EXCEPT ![i].status = "complete"]
  /\ UNCHANGED <<state, now, exceptApp>>

\* onError of call i
App_onError(i) ==
  /\ streams[i].status = "open"
  /\ prev' = [prev EXCEPT !.loading = FALSE, !.error = "error"]
  /\ streams' = [streams EXCEPT ![i].status = "error"]
  /\ UNCHANGED <<state, now, exceptApp>>

\* handleClearError, behind the close button of the error banner
handleClearError ==
  /\ state.error # NoError
  /\ prev' = [prev EXCEPT !.error = NoError]
  /\ FlushSync
  /\ UNCHANGED <<now, streams, exceptApp>>

NextApp ==
  \/ \E i \in 1..MaxWindow : handleModeChange(MODES[i])
  \/ \E content \in AppInputs : handleSend(content)
  \/ \E i \in 1..Len(streams), newContent \in {Increment(1), Increment(2)} :
       App_onChunk(i, newContent)
  \/ \E i \in 1..Len(streams) : App_onComplete(i)
  \/ \E i \in 1..Len(streams) : App_onError(i)
  \/ handleClearError
  \/ Render

SpecApp == InitApp /\ [][NextApp]_vars

\* ------------------------------------------------------------------------
\* The ChatInput component (ChatInput.tsx)
\* ------------------------------------------------------------------------
Space == " "
Whitespace == {Space, Newline}

\* the texts a user types
InputTexts ==
  { <<>>, <<Space>>, <<Space, Newline>>, <<"h", "i">>,
    <<Space, "h", "i", Space>>, <<"h", Space, "i">>, <<Newline, "y", "o">> }

RECURSIVE TrimStart(_)
TrimStart(text) ==
  IF text # <<>> /\ Head(text) \in Whitespace THEN TrimStart(Tail(text))
  ELSE text

RECURSIVE TrimEnd(_)
TrimEnd(text) ==
  IF text # <<>> /\ text[Len(text)] \in Whitespace
  THEN TrimEnd(SubSeq(text, 1, Len(text) - 1))
  ELSE text

\* String.prototype.trim
Trim(text) == TrimEnd(TrimStart(text))

InitChatInput ==
  /\ InitRelay
  /\ DecoderIdle
  /\ ContextIdle
  /\ AppIdle
  /\ RestIdle("ChatInput")
  /\ inputText = <<>>
  /\ isLoading \in BOOLEAN
  /\ onSendCalls = <<>>

\* onChange: setInput(e.target.value); the textarea is disabled while loading
onChange(value) ==
  /\ ~isLoading
  /\ inputText' = value
  /\ UNCHANGED <<isLoading, onSendCalls, exceptChatInput>>

\* the parent renders ChatInput with another isLoading
SetLoading(loading) ==
  /\ isLoading # loading
  /\ isLoading' = loading
  /\ UNCHANGED <<inputText, onSendCalls, exceptChatInput>>

\* mutant: the send does not look at isLoading
ChatInput_handleSend_whileLoading ==
  /\ Len(onSendCalls) < MaxSends
  /\ IF Trim(inputText) # <<>>
     THEN /\ onSendCalls' = Append(onSendCalls, Trim(inputText))
          /\ inputText' = <<>>
     ELSE UNCHANGED <<inputText, onSendCalls>>
  /\ UNCHANGED <<isLoading, exceptChatInput>>

\* handleSend: if (input.trim() && !isLoading) { onSend(input.trim());
\* setInput("") }
ChatInput_handleSend ==
  /\ Len(onSendCalls) < MaxSends
  /\ IF Trim(inputText) # <<>> /\ ~isLoading
     THEN /\ onSendCalls' = Append(onSendCalls, Trim(inputText))
          /\ inputText' = <<>>
     ELSE UNCHANGED <<inputText, onSendCalls>>
  /\ UNCHANGED <<isLoading, exceptChatInput>>

NextChatInput ==
  \/ \E value \in InputTexts : onChange(value)
  \/ \E loading \in BOOLEAN : SetLoading(loading)
  \/ ChatInput_handleSend

SpecChatInput == InitChatInput /\ [][NextChatInput]_vars

\* ------------------------------------------------------------------------
\* authMiddleware (middleware/auth.ts) in front of GET /protected
\* ------------------------------------------------------------------------
Bearer == <<"B", "e", "a", "r", "e", "r", " ">>

\* the tokens a request may carry: two issued ones, an expired one, one that
\* is no token, and the empty string
Tokens == {<<"t1">>, <<"t2">>, <<"e1">>, <<"x">>, <<>>}

\* the values of the Authorization header; <<>> is a missing or empty header
AuthHeaders ==
  {<<>>} \cup {Bearer \o tok : tok \in Tokens}
         \cup {<<"B", "a", "s", "i", "c", " ", "t1">>,
               <<"b", "e", "a", "r", "e", "r", " ", "t1">>,
               <<"B", "e", "a", "r", "e", "r", "t1">>}

\* String.prototype.startsWith
StartsWith(str, prefix) ==
  Len(str) >= Len(prefix) /\ SubSeq(str, 1, Len(prefix)) = prefix

\* String.prototype.substring(start), start counted from 0
Substring(str, start) == SubSeq(str, start + 1, Len(str))

\* verifyToken: jwt.verify returns the payload of a token signed with the
\* secret and not expired, and throws for every other string
verifyToken(token) ==
  IF token = <<"t1">> THEN [ok |-> TRUE, payload |-> [userId |-> "u1"]]
  ELSE IF token = <<"t2">> THEN [ok |-> TRUE, payload |-> [userId |-> "u2"]]
  ELSE [ok |-> FALSE, payload |-> NoUser]

InitAuth ==
  /\ InitRelay
  /\ DecoderIdle
  /\ ContextIdle
  /\ AppIdle
  /\ RestIdle("Auth")
  /\ req = NoRequest
  /\ authRes = <<>>
  /\ nextCalls = 0
  /\ apc = "idle"
  /\ authLog = <<>>

\* a request to GET /protected arrives
ReceiveProtected(header) ==
  /\ apc \in {"idle", "done"}
  /\ Len(authLog) < MaxRequests
  /\ req' = [authorization |-> header, user |-> NoUser]
  /\ authRes' = <<>>
  /\ nextCalls' = 0
  /\ apc' = "middleware"
  /\ UNCHANGED <<authLog, exceptAuth>>

\* mutant: the 401 for a header without "Bearer " is not followed by return
authMiddleware_noReturn ==
  /\ apc = "middleware"
  /\ LET authHeader == req.authorization
         checked == verifyToken(Substring(authHeader, 7))
     IN  IF authHeader = <<>> \/ ~StartsWith(authHeader, Bearer)
         THEN /\ authRes' = Append(authRes, "401")
              /\ nextCalls' = nextCalls + 1
              /\ apc' = "handler"
              /\ UNCHANGED <<req, authLog>>
         ELSE IF checked.ok
              THEN /\ req' = [req EXCEPT !.user = checked.payload]
                   /\ nextCalls' = nextCalls + 1
                   /\ apc' = "handler"
                   /\ UNCHANGED <<authRes, authLog>>
              ELSE /\ authRes' = Append(authRes, "401")
                   /\ apc' = "done"
                   /\ authLog' = Append(authLog,
                        [header |-> authHeader, res |-> authRes', user |-> req.user,
                         nextCalls |-> nextCalls])
                   /\ UNCHANGED <<req, nextCalls>>
  /\ UNCHANGED exceptAuth

\* authMiddleware(req, res, next)
authMiddleware ==
  /\ apc = "middleware"
  /\ LET authHeader == req.authorization
         checked == verifyToken(Substring(authHeader, 7))
     IN  IF authHeader = <<>> \/ ~StartsWith(authHeader, Bearer)
         THEN /\ authRes' = Append(authRes, "401")
              /\ apc' = "done"
              /\ authLog' = Append(authLog,
                   [header |-> authHeader, res |-> authRes', user |-> req.user,
                    nextCalls |-> nextCalls])
              /\ UNCHANGED <<req, nextCalls>>
         ELSE IF checked.ok
              THEN /\ req' = [req EXCEPT !.user = checked.payload]
                   /\ nextCalls' = nextCalls + 1
                   /\ apc' = "handler"
                   /\ UNCHANGED <<authRes, authLog>>
              ELSE /\ authRes' = Append(authRes, "401")
                   /\ apc' = "done"
                   /\ authLog' = Append(authLog,
                        [header |-> authHeader, res |-> authRes', user |-> req.user,
                         nextCalls |-> nextCalls])
                   /\ UNCHANGED <<req, nextCalls>>
  /\ UNCHANGED exceptAuth

\* the handler of GET /protected: res.json({ message, user: req.user })
ProtectedHandler ==
  /\ apc = "handler"
  /\ authRes' = Append(authRes, "200")
  /\ apc' = "done"
  /\ authLog' = Append(authLog,
       [header |-> req.authorization, res |-> authRes', user |-> req.user,
        nextCalls |-> nextCalls])
  /\ UNCHANGED <<req, nextCalls, exceptAuth>>

NextAuth ==
  \/ \E header \in AuthHeaders : ReceiveProtected(header)
  \/ authMiddleware
  \/ ProtectedHandler

SpecAuth == InitAuth /\ [][NextAuth]_vars

\* ------------------------------------------------------------------------
\* The v0.5 client: sendMessageStream over fetch and a ReadableStream
\* (Client聊天改造案例.md).  A text is a sequence of tokens: a field name
\* ("event:", "data:"), a field value, or the line feed; a read returns any
\* number of the tokens that follow.
\* ------------------------------------------------------------------------
NL == "\n"

\* res.write(`event: ${k}\ndata: ${v}\n\n`)
SseEvent(k, v) == <<"event:", k, NL, "data:", v, NL, NL>>

RECURSIVE Concat(_)
Concat(seqs) ==
  IF seqs = <<>> THEN <<>> ELSE Head(seqs) \o Concat(Tail(seqs))

\* the texts the server writes: the session event, one message event per
\* chunk, then done, or error, or nothing when the connection closes first
ChunkSeqs == UNION {[1..n -> Texts] : n \in 0..MaxChunks}
Endings == {"done", "error", "closed"}
ServerText(chunks, ending) ==
  SseEvent("session", "{sessionId:s1}")
    \o Concat([i \in 1..Len(chunks) |->
                SseEvent("message", IF chunks[i] = "hi" THEN "{content:hi}"
                                    ELSE "{content:yo}")])
    \o (IF ending = "done" THEN SseEvent("done", "{}")
        ELSE IF ending = "error" THEN SseEvent("error", "{error:boom}")
        ELSE <<>>)
ServerTexts == {ServerText(c, e) : c \in ChunkSeqs, e \in Endings}

Responses ==
  {[ok |-> TRUE, body |-> TRUE, text |-> t] : t \in ServerTexts}
    \cup {[ok |-> FALSE, body |-> TRUE, text |-> <<>>],
          [ok |-> TRUE, body |-> FALSE, text |-> <<>>]}

\* String.prototype.split(sep) for a separator of two line feeds
RECURSIVE SplitBlank(_)
SplitBlank(str) ==
  IF \E i \in 1..(Len(str) - 1) : str[i] = NL /\ str[i + 1] = NL
  THEN LET i == CHOOSE i \in 1..(Len(str) - 1) :
                  /\ str[i] = NL /\ str[i + 1] = NL
                  /\ \A j \in 1..(i - 1) : ~(str[j] = NL /\ str[j + 1] = NL)
       IN  <<SubSeq(str, 1, i - 1)>> \o SplitBlank(SubSeq(str, i + 2, Len(str)))
  ELSE <<str>>

\* String.prototype.split('\n')
RECURSIVE SplitFeeds(_)
SplitFeeds(str) ==
  IF \E i \in 1..Len(str) : str[i] = NL
  THEN LET i == CHOOSE i \in 1..Len(str) :
                  str[i] = NL /\ \A j \in 1..(i - 1) : str[j] # NL
       IN  <<SubSeq(str, 1, i - 1)>> \o SplitFeeds(SubSeq(str, i + 1, Len(str)))
  ELSE <<str>>

\* String.prototype.trim() of a text whose only white space is the line feed
RECURSIVE TrimFeeds(_)
TrimFeeds(str) ==
  IF str = <<>> THEN <<>>
  ELSE IF Head(str) = NL THEN TrimFeeds(Tail(str))
  ELSE IF str[Len(str)] = NL THEN TrimFeeds(SubSeq(str, 1, Len(str) - 1))
  ELSE str

NoData == [sessionId |-> "", content |-> "", error |-> ""]

\* JSON.parse of a data field; a text that is no JSON document throws and
\* the field is kept as a string, whose properties are all undefined
JSONParse(str) ==
  IF str = <<"{sessionId:s1}">> THEN [NoData EXCEPT !.sessionId = "s1"]
  ELSE IF str = <<"{content:hi}">> THEN [NoData EXCEPT !.content = "hi"]
  ELSE IF str = <<"{content:yo}">> THEN [NoData EXCEPT !.content = "yo"]
  ELSE IF str = <<"{error:boom}">> THEN [NoData EXCEPT !.error = "boom"]
  ELSE NoData

\* the fields of one event after the for loop over its lines
RECURSIVE Fields(_, _)
Fields(lines, acc) ==
  IF lines = <<>> THEN acc
  ELSE LET line == Head(lines)
       IN  IF line # <<>> /\ Head(line) = "event:"
           THEN Fields(Tail(lines), [acc EXCEPT !.event = Tail(line)])
           ELSE IF line # <<>> /\ Head(line) = "data:"
           THEN Fields(Tail(lines), [acc EXCEPT !.eventData = Tail(line)])
           ELSE Fields(Tail(lines), acc)

NoEvent == [event |-> <<>>, data |-> NoData]

\* parseSSEEvent: NoEvent stands for null
parseSSEEvent(data) ==
  LET f == Fields(SplitFeeds(TrimFeeds(data)),
                  [event |-> <<>>, eventData |-> <<>>])
  IN  IF f.event = <<>> THEN NoEvent
      ELSE [event |-> f.event, data |-> JSONParse(f.eventData)]

Callback(cb, arg) == [cb |-> cb, arg |-> arg]

\* the for loop over the events of one read: the callbacks it calls and how
\* it leaves ("" when it runs to its end, else what it does to the promise)
RECURSIVE Dispatch(_, _)
Dispatch(lines, out) ==
  IF lines = <<>> THEN [out |-> out, settle |-> ""]
  ELSE LET event == parseSSEEvent(Head(lines))
       IN  IF event = NoEvent THEN Dispatch(Tail(lines), out)
           ELSE IF event.event = <<"session">>
           THEN Dispatch(Tail(lines),
                         IF event.data.sessionId # ""
                         THEN Append(out, Callback("onSessionCreated",
                                                   event.data.sessionId))
                         ELSE out)
           ELSE IF event.event = <<"message">>
           THEN Dispatch(Tail(lines),
                         Append(out, Callback("onChunk", event.data.content)))
           ELSE IF event.event = <<"done">>
           THEN [out |-> Append(out, Callback("onComplete", "")),
                 settle |-> "resolved"]
           ELSE IF event.event = <<"error">>
           THEN [out |-> Append(out,
                   Callback("onError", IF event.data.error # ""
                                       THEN event.data.error ELSE "unknown")),
                 settle |-> "rejected"]
           ELSE Dispatch(Tail(lines), out)

\* one turn of the while loop with a read that returned value
ReadStep_noCarry(buf, value) ==
  LET lines == SplitBlank(value)
  IN  [buffer |-> lines[Len(lines)],
       run |-> Dispatch(SubSeq(lines, 1, Len(lines) - 1), <<>>)]

ReadStep(buf, value) ==
  LET lines == SplitBlank(buf \o value)
  IN  [buffer |-> lines[Len(lines)],
       run |-> Dispatch(SubSeq(lines, 1, Len(lines) - 1), <<>>)]

InitSse ==
  /\ InitRelay
  /\ DecoderIdle
  /\ ContextIdle
  /\ AppIdle
  /\ RestIdle("Sse")
  /\ response \in Responses
  /\ offset = 0
  /\ buffer = <<>>
  /\ spc = "fetch"
  /\ delivered = <<>>
  /\ promise = "pending"
  /\ carried = FALSE

\* .catch((error) => { onError(error); reject(error); })
SseCatch(message) ==
  /\ delivered' = Append(delivered, Callback("onError", message))
  /\ promise' = IF promise = "pending" THEN "rejected" ELSE promise
  /\ spc' = "failed"

\* fetch rejects
SseFetchFail ==
  /\ spc = "fetch"
  /\ SseCatch("network")
  /\ UNCHANGED <<response, offset, buffer, carried, exceptSse>>

\* fetch resolves: !response.ok and a missing body throw
SseFetchOk ==
  /\ spc = "fetch"
  /\ IF ~response.ok THEN SseCatch("request failed")
     ELSE IF ~response.body THEN SseCatch("no body")
     ELSE /\ spc' = "read"
          /\ UNCHANGED <<delivered, promise>>
  /\ UNCHANGED <<response, offset, buffer, carried, exceptSse>>

\* reader.read() returns the next k tokens
SseRead(k) ==
  /\ spc = "read"
  /\ offset + k <= Len(response.text)
  /\ LET step == ReadStep(buffer,
                          SubSeq(response.text, offset + 1, offset + k))
     IN  /\ buffer' = step.buffer
         /\ delivered' = delivered \o step.run.out
         /\ promise' = IF step.run.settle # "" /\ promise = "pending"
                       THEN step.run.settle ELSE promise
         /\ spc' = IF step.run.settle # "" THEN "returned" ELSE "read"
         /\ carried' = (carried \/ buffer # <<>>)
  /\ offset' = offset + k
  /\ UNCHANGED <<response, exceptSse>>

\* reader.read() returns done: break, and the callback of then returns
SseReadDone ==
  /\ spc = "read"
  /\ offset = Len(response.text)
  /\ spc' = "returned"
  /\ UNCHANGED <<response, offset, buffer, delivered, promise, carried,
                 exceptSse>>

\* reader.read() rejects
SseReadFail ==
  /\ spc = "read"
  /\ SseCatch("network")
  /\ UNCHANGED <<response, offset, buffer, carried, exceptSse>>

NextSse ==
  \/ SseFetchFail
  \/ SseFetchOk
  \/ \E k \in 1..MaxRead : SseRead(k)
  \/ SseReadDone
  \/ SseReadFail

SpecSse == InitSse /\ [][NextSse]_vars

\* ------------------------------------------------------------------------
\* GET /health (index.ts): the handler awaits one query of the users table
\* ------------------------------------------------------------------------
DbErrors == {"null", "unavailable"}

\* res.json(body) with the status set before: Node writes the response if
\* none was written for this request, else setHeader throws
resJson(r, code, body) ==
  /\ sends' = [sends EXCEPT ![r] = Append(@, [status |-> code, body |-> body])]
  /\ IF healthRes[r] = <<>>
     THEN /\ healthRes' = [healthRes EXCEPT
                             ![r] = <<[status |-> code, body |-> body]>>]
          /\ UNCHANGED thrown
     ELSE /\ thrown' = [thrown EXCEPT ![r] = "ERR_HTTP_HEADERS_SENT"]
          /\ UNCHANGED healthRes

InitHealth ==
  /\ InitRelay
  /\ DecoderIdle
  /\ ContextIdle
  /\ AppIdle
  /\ RestIdle("Health")
  /\ HealthIdle

\* the request arrives and the handler runs up to its await
HealthRequest(r) ==
  /\ hpc[r] = "idle"
  /\ hpc' = [hpc EXCEPT ![r] = "query"]
  /\ UNCHANGED <<dbError, sends, healthRes, thrown, exceptHealth>>

\* the query settles with error: the try block answers, or its catch does
HealthQuery(r, error) ==
  /\ hpc[r] = "query"
  /\ dbError' = [dbError EXCEPT ![r] = error]
  /\ IF error = "null"
     THEN resJson(r, 200, "ok connected")
     ELSE resJson(r, 500, "error disconnected")
  /\ hpc' = [hpc EXCEPT ![r] = "after"]
  /\ UNCHANGED exceptHealth

\* the statement after the try block: res.json({ status: "ok", ... })
HealthAfter(r) ==
  /\ hpc[r] = "after"
  /\ resJson(r, 200, "ok")
  /\ hpc' = [hpc EXCEPT ![r] = "done"]
  /\ UNCHANGED <<dbError, exceptHealth>>

NextHealth ==
  \/ \E r \in Probes : HealthRequest(r)
  \/ \E r \in Probes, error \in DbErrors : HealthQuery(r, error)
  \/ \E r \in Probes : HealthAfter(r)

SpecHealth == InitHealth /\ [][NextHealth]_vars

\* ------------------------------------------------------------------------
\* Properties of the relay (checked under Spec)
\* ------------------------------------------------------------------------
IsPrefix(a, b) == Len(a) <= Len(b) /\ SubSeq(b, 1, Len(a)) = a

Row(sid, role, content, t) ==
  [sessionId |-> sid, role |-> role, content |-> content, turn |-> t]

IsOfTurn(r, t) == r.turn = t
RowsOfTurn(t) == SelectSeq(messages, LAMBDA r : IsOfTurn(r, t))
AssistantRows(t) ==
  SelectSeq(messages, LAMBDA r : IsOfTurn(r, t) /\ r.role = "assistant")
UserRowStored(t) ==
  \E i \in 1..Len(messages) :
    messages[i] = Row(session[t], "user", input[t].message, t)

HasEvent(evs, type) == \E i \in 1..Len(evs) : evs[i].type = type
\* the concatenated content of the `message` events of evs
ContentOf(evs) ==
  LET ms == SelectSeq(evs, LAMBDA e : e.type = "message")
  IN  Flatten([i \in 1..Len(ms) |-> ms[i].data])
LastEvent(evs) == IF evs = <<>> THEN [type |-> "none", data |-> <<>>]
                  ELSE evs[Len(evs)]

\* sendMessageStream takes no further step for the turn: the response was
\* ended, or the promise of chatStream or of onComplete was rejected with
\* nothing left to catch it
TurnOver(t) == pc[t] \in {"ended", "replied", "streamRejected", "completeRejected"}

C4_NoInterleaving ==
  \A i \in 1..Len(messages), j \in 1..Len(messages), k \in 1..Len(messages) :
    (i < j /\ j < k
       /\ messages[i].sessionId = messages[k].sessionId
       /\ messages[j].sessionId = messages[i].sessionId
       /\ messages[i].turn = messages[k].turn)
    => messages[j].turn = messages[i].turn

C7_RejectedTurn ==
  \A t \in Turns :
    (upstreamEnd[t] \in {"error", "rejected"} /\ upstream[t] = <<>>)
    => /\ LastEvent(written[t]) = ErrorEvent
       /\ AssistantRows(t) = <<>>
       /\ UserRowStored(t)

\* the event types of evs form  [session]? message*  followed by rest
RECURSIVE MessagesThen(_, _)
MessagesThen(types, rest) ==
  IF types # <<>> /\ Head(types) = "message"
  THEN MessagesThen(Tail(types), rest)
  ELSE types \in rest
EventGrammar(evs, rest) ==
  LET types == [i \in 1..Len(evs) |-> evs[i].type]
  IN  IF types # <<>> /\ Head(types) = "session"
      THEN MessagesThen(Tail(types), rest)
      ELSE MessagesThen(types, rest)

\* C8: the events written for a turn that opened the SSE response follow
\* [session]? message* (done | error): while the turn runs they are a prefix
\* of it, and a turn that is over has written exactly one terminal event, last.
C8_EventOrder ==
  \A t \in Turns :
    status[t] = "sse"
    => /\ EventGrammar(written[t], {<<>>, <<"done">>, <<"error">>})
       /\ TurnOver(t)
            => EventGrammar(written[t], {<<"done">>, <<"error">>})

\* ------------------------------------------------------------------------
\* Properties of the client's sendMessageStream (checked under SpecDecoder)
\* ------------------------------------------------------------------------
\* the callbacks of a call that gets the whole body in one read
WholeStreamCallbacks(bytes) ==
  LET dec == DecodeFrom(<<>>, bytes, <<>>)
      out == ProcessLines(SplitLines(dec.text), <<>>)
  IN  IF bytes = <<>> \/ ~out.returned
      THEN Append(out.cbs, CompleteCallback)
      ELSE out.cbs

IsTerminal(c) == c.cb \in {"onComplete", "onError"}
Terminals == SelectSeq(callbacks, IsTerminal)

\* C9: a call that ends without a transport error has delivered the same
\* callbacks as a call that gets the whole body in one read, however the body
\* was cut into reads.
C9_SplitInvariant ==
  (dpc = "returned" /\ ErrorCallback \notin {callbacks[i] : i \in 1..Len(callbacks)})
  => callbacks = WholeStreamCallbacks(stream)

\* C10: a call delivers at most one terminal callback and nothing after it;
\* a call that has returned has delivered exactly one, also when a done
\* record was followed by more records or more bytes.
C10_OneTerminal ==
  /\ Len(Terminals) <= 1
  /\ Len(Terminals) = 1
       => /\ IsTerminal(callbacks[Len(callbacks)])
          /\ dpc = "returned"
  /\ dpc = "returned" => Len(Terminals) = 1

C10_Witness ==
  /\ dpc = "returned"
  /\ callbacks # <<>>
  /\ callbacks[Len(callbacks)] = CompleteCallback
  /\ pos < Len(stream)

\* the lines of the whole body
BodyLines(bytes) == SplitLines(DecodeFrom(<<>>, bytes, <<>>).text)
Parses(line) == JsonParse(line).ok

\* C11: in a call whose transport does not fail, the lines that do not parse
\* leave no trace: no onError is delivered and the call ends with onComplete;
\* when the reads end at line ends, the callbacks are exactly those of the
\* body without these lines, in order.
C11_BadLineSkipped ==
  (dpc = "returned" /\ ~failed)
  => LET good == ProcessLines(SelectSeq(BodyLines(stream), Parses), <<>>)
     IN  /\ \A i \in 1..Len(callbacks) : callbacks[i].cb # "onError"
         /\ callbacks # <<>>
         /\ callbacks[Len(callbacks)] = CompleteCallback
         /\ ~cut => callbacks = IF good.returned THEN good.cbs
                                ELSE Append(good.cbs, CompleteCallback)

C11_Witness ==
  /\ dpc = "returned"
  /\ ~failed
  /\ ~cut
  /\ stream = <<"x", Newline, "{", "a", "}", Newline>>
  /\ callbacks = <<ChunkCallback(<<"a">>), CompleteCallback>>

\* the data of the `message` events among evs, in order
MessageData(evs) ==
  LET ms == SelectSeq(evs, LAMBDA e : e.type = "message")
  IN  [i \in 1..Len(ms) |-> ms[i].data]

\* C12: at every moment of a turn the buffer fullResponse is the
\* concatenation of the contents of the `message` events written so far, and
\* these events are the adapter's increments, each once and in the adapter's
\* order.
C12_BufferIsForwarded ==
  \A t \in Turns :
    /\ fullResponse[t] = ContentOf(written[t])
    /\ MessageData(written[t]) = upstream[t]

C12_Witness ==
  \E t \in Turns :
    /\ Len(upstream[t]) = 2
    /\ fullResponse[t] = <<"a", "b", "c">>
    /\ MessageData(written[t]) = <<<<"a">>, <<"b", "c">>>>

\* ------------------------------------------------------------------------
\* Properties of getContext
\* ------------------------------------------------------------------------
\* the last n entries of H, all of H when it is shorter
LastEntries(H, n) == SubSeq(H, Len(H) - Min(Len(H), n) + 1, Len(H))

\* C13: the context is the system message followed by the last contextLength
\* entries of the history, so its length is min(|H|, contextLength) + 1.
C13_WindowOfHistory ==
  contextRef # 0
  => /\ heap[contextRef] = <<SystemMessage(callMode)>>
                             \o LastEntries(given, callMode.contextLength)
     /\ Len(heap[contextRef]) = Min(Len(given), callMode.contextLength) + 1
     /\ heap[contextRef][1] = SystemMessage(callMode)

\* C14: with contextLength 0 the context is the system message alone.
C14_ZeroWindow ==
  (contextRef # 0 /\ callMode.contextLength = 0)
  => heap[contextRef] = <<SystemMessage(callMode)>>

\* C20: the call leaves the history array as it was and returns an array
\* other than it.
C20_HistoryUntouched ==
  contextRef # 0
  => /\ heap[1] = given
     /\ contextRef # 1

C20_Witness ==
  /\ contextRef # 0
  /\ Len(given) = 3
  /\ callMode.contextLength = 2
  /\ Len(heap[contextRef]) = 3
  /\ heap[1] = given

\* ------------------------------------------------------------------------
\* Properties of the client App
\* ------------------------------------------------------------------------
\* C15: every context the App sends holds at most contextLength + 1
\* messages; once the history holds contextLength messages or more it is the
\* system message followed by exactly the contextLength most recent ones,
\* the last being the user message just sent.
C15_SlidingWindow ==
  \A i \in 1..Len(streams) :
    LET n == streams[i].mode.contextLength
        H == streams[i].history
        context == streams[i].context
    IN  n >= 1 =>
          /\ Len(context) <= n + 1
          /\ context[1] = SystemMessage(streams[i].mode)
          /\ context[Len(context)] = H[Len(H)]
          /\ Len(H) >= n =>
               /\ Len(context) = n + 1
               /\ SubSeq(context, 2, n + 1) = SubSeq(H, Len(H) - n + 1, Len(H))

C15_Witness ==
  /\ Len(streams) = 3
  /\ streams[3].mode.contextLength = 2
  /\ Len(streams[3].history) = 5
  /\ Len(streams[3].context) = 3
  /\ streams[3].context[2].id = streams[2].id

\* ------------------------------------------------------------------------
\* Properties of the relay: sessions and the upstream context
\* ------------------------------------------------------------------------
\* historyMessages.map(m => ({ role: m.role, content: m.content })): the
\* context handed to adapter.chatStream
UpstreamContext(t) ==
  [i \in 1..Len(historyMessages[t]) |->
     [role |-> historyMessages[t][i].role,
      content |-> historyMessages[t][i].content]]

\* the turn works on a session it created itself
CreatedSession(t) ==
  session[t] # NoSession /\ session[t] # input[t].sessionId

\* C16: the context sent upstream for a turn starts with one system message,
\* which is followed by at most HistoryTake messages of the session, the
\* user message of the turn among them.
C16_UpstreamContext ==
  \A t \in Turns :
    status[t] = "sse"
    => LET context == UpstreamContext(t)
       IN  /\ context # <<>>
           /\ context[1].role = "system"
           /\ Len(context) <= HistoryTake + 1
           /\ \E i \in 1..Len(context) :
                context[i] = [role |-> "user", content |-> input[t].message]

\* C17: a turn whose request carries a sessionId never works on a session it
\* created.
C17_CreateOnlyWithoutId ==
  \A t \in Turns : input[t].sessionId # NoSession => ~CreatedSession(t)

\* C18: a `session` event is written only in a turn that created its
\* session, and carries that session's id.
C18_SessionEventOnlyWhenCreated ==
  \A t \in Turns :
    HasEvent(written[t], "session")
    => /\ CreatedSession(t)
       /\ written[t][1] = SessionEvent(session[t])

\* ------------------------------------------------------------------------
\* Properties of sendMessageStreamWithTimeout
\* ------------------------------------------------------------------------
\* C19: once the timeout has been reported through onError, the call
\* delivers no onChunk and no onComplete any more.
C19_SilentAfterTimeout ==
  \A i, j \in 1..Len(callbacks) :
    (callbacks[i] = TimeoutCallback /\ i < j)
    => callbacks[j].cb \notin {"onChunk", "onComplete"}

\* the calls of sendMessageStream that have delivered neither onComplete
\* nor onError
OpenStreams == {i \in 1..Len(streams) : streams[i].status = "open"}

\* C21: loading is true as long as a stream is in flight, and at most one
\* stream is in flight at a time.
C21_LoadingWhileStreaming ==
  /\ OpenStreams # {} => state.loading
  /\ Cardinality(OpenStreams) <= 1

\* the chunks call i has delivered so far, concatenated
Delivered(i) == Flatten([k \in 1..streams[i].chunks |-> Increment(k)])

\* the user message of send i and its assistant message holding the chunks
\* delivered to it
TurnMessages(i) ==
  << streams[i].history[Len(streams[i].history)],
     [id |-> streams[i].id, role |-> "assistant", content |-> Delivered(i)] >>

\* C22: once a stream has completed, its placeholder holds exactly the
\* chunks delivered to it, in order, and the rest of the list is what the
\* sends put there: every user message, and every other placeholder with
\* the chunks of its own stream.
C22_ChunksAppended ==
  (\E i \in 1..Len(streams) : streams[i].status = "complete")
  => prev.messages = Flatten([i \in 1..Len(streams) |-> TurnMessages(i)])

\* C23: a step of handleModeChange leaves messages, loading and error as
\* they are and sets currentMode to the mode selected; when that mode is the
\* current one already, the step changes nothing.
C23_ModeChangeOnly ==
  [][\A i \in 1..MaxWindow :
       handleModeChange(MODES[i])
       => /\ prev'.messages = prev.messages
          /\ prev'.loading = prev.loading
          /\ prev'.error = prev.error
          /\ prev'.currentMode = MODES[i]
          /\ MODES[i].id = prev.currentMode.id
               => (prev' = prev /\ state' = state)]_vars

C23_Witness ==
  /\ Len(streams) = 1
  /\ streams[1].mode = MODES[1]
  /\ prev.currentMode = MODES[2]
  /\ Len(prev.messages) = 2
  /\ prev.loading

\* ------------------------------------------------------------------------
\* Properties of ChatInput
\* ------------------------------------------------------------------------
\* text without the whitespace in front of its first and behind its last
\* character that is not whitespace
Stripped(text) ==
  LET solid == {k \in 1..Len(text) : text[k] \notin Whitespace}
  IN  IF solid = {} THEN <<>>
      ELSE SubSeq(text, CHOOSE k \in solid : \A j \in solid : k <= j,
                        CHOOSE k \in solid : \A j \in solid : j <= k)

\* C24: a step of handleSend calls onSend once, with the stripped input, and
\* clears the input when the input holds a character that is not whitespace
\* and isLoading is false; otherwise it calls nothing and leaves the input.
C24_SendGate ==
  [][ChatInput_handleSend
     => IF Stripped(inputText) # <<>> /\ ~isLoading
        THEN /\ onSendCalls' = Append(onSendCalls, Stripped(inputText))
             /\ inputText' = <<>>
        ELSE /\ onSendCalls' = onSendCalls
             /\ inputText' = inputText]_vars

C24_Witness ==
  /\ onSendCalls = <<<<"h", "i">>, <<"y", "o">>>>
  /\ inputText = <<Space>>
  /\ isLoading

VerifiedHeader(header) ==
  /\ Len(header) >= 7
  /\ SubSeq(header, 1, 7) = Bearer
  /\ SubSeq(header, 8, Len(header)) \in {<<"t1">>, <<"t2">>}

\* the user of the token that follows "Bearer "
UserOf(header) ==
  [userId |-> IF SubSeq(header, 8, Len(header)) = <<"t1">> THEN "u1" ELSE "u2"]

\* C26: for every request the middleware either calls next() once, with
\* req.user the payload of the verified token of a "Bearer " header and no
\* 401 sent, or answers 401 once and does not call next(); the handler runs
\* only with a verified user.
C26_NextOrReject ==
  /\ apc \in {"handler", "done"}
       => \/ /\ nextCalls = 1
             /\ VerifiedHeader(req.authorization)
             /\ req.user = UserOf(req.authorization)
             /\ \A i \in 1..Len(authRes) : authRes[i] # "401"
          \/ /\ nextCalls = 0
             /\ authRes = <<"401">>
             /\ ~VerifiedHeader(req.authorization)
  /\ \A i \in 1..Len(authLog) :
       \A j \in 1..Len(authLog[i].res) :
         authLog[i].res[j] = "200"
         => /\ VerifiedHeader(authLog[i].header)
            /\ authLog[i].user = UserOf(authLog[i].header)

C26_Witness ==
  /\ Len(authLog) = 2
  /\ authLog[1].res = <<"401">>
  /\ authLog[1].header = <<"B", "a", "s", "i", "c", " ", "t1">>
  /\ authLog[2].res = <<"200">>
  /\ authLog[2].user = [userId |-> "u2"]

\* ------------------------------------------------------------------------
\* Properties of the relay: whose session a turn writes to
\* ------------------------------------------------------------------------
\* the user a stored session belongs to
OwnerOf(sid) ==
  LET i == CHOOSE i \in 1..Len(sessions) : sessions[i].id = sid
  IN  sessions[i].userId

\* C27: a turn stores messages in, and sends upstream the history of, a
\* session of the requesting user only.
C27_OwnSessionOnly ==
  \A t \in Turns :
    (session[t] # NoSession /\ OwnerOf(session[t]) # input[t].userId)
    => /\ RowsOfTurn(t) = <<>>
       /\ historyMessages[t] = <<>>

\* ------------------------------------------------------------------------
\* Properties of the v0.5 client's sendMessageStream (checked under SpecSse)
\* ------------------------------------------------------------------------
Terminal(out) ==
  SelectSeq(out, LAMBDA c : c.cb \in {"onComplete", "onError"})

\* C28: once the call has nothing left to do, its promise is resolved or
\* rejected and exactly one of onComplete / onError has been delivered,
\* whatever the server's response was.
C28_SettlesOnce ==
  spc \in {"returned", "failed"}
    => /\ promise \in {"resolved", "rejected"}
       /\ Len(Terminal(delivered)) = 1

\* the callbacks of the text read in one piece
Unsplit(text) == ReadStep(<<>>, text).run.out

\* C29: whatever the reads a server text arrives in, the callbacks delivered
\* once offset tokens are read are those of the same tokens read in one
\* piece: an event is delivered with the read that brings its blank line.
C29_SplitInvariant ==
  spc \in {"read", "returned"}
    => delivered = Unsplit(SubSeq(response.text, 1, offset))

\* a complete response arrived in reads that cut its events
C29_Witness ==
  /\ spc = "returned"
  /\ carried
  /\ offset = Len(response.text)
  /\ Len(delivered) = 4
  /\ delivered[4].cb = "onComplete"

\* ------------------------------------------------------------------------
\* Properties of GET /health (checked under SpecHealth)
\* ------------------------------------------------------------------------
\* C30: the handler of a finished request asked for exactly one response, a
\* 200 "ok" one when the query succeeded and a 500 one when it failed, and
\* asked for no second response after the first.
C30_OneResponse ==
  \A r \in Probes :
    hpc[r] = "done"
      => /\ Len(sends[r]) = 1
         /\ sends[r][1].status = (IF dbError[r] = "null" THEN 200 ELSE 500)
         /\ thrown[r] = "null"

====
